---- MODULE Spec2Model ----
(***************************************************************************)
(* A model of the PetPal chatbot service (src/chat.py, src/models.py,      *)
(* src/main.py): the session table and its lock, the per-turn profile      *)
(* extraction, stage selection and content selection, the external model   *)
(* call with its fallback, and the HTTP handlers that touch the table.     *)
(*                                                                         *)
(* Text is a tuple of one-character strings, so that the substring tests,  *)
(* split(), strip(), title() and isalpha() of the source are computed and  *)
(* not assumed.                                                            *)
(*                                                                         *)
(* Scheduling is asyncio's: one task runs on the event loop at a time and  *)
(* keeps it until it suspends on a future (the executor call of            *)
(* src/chat.py:388, or a lock that is held) or returns; `running` is that  *)
(* task.                                                                   *)
(***************************************************************************)
EXTENDS Integers, Sequences, FiniteSets, TLC

\* ---------------------------------------------------------------- bounds

\* Concurrent requests in flight (Spec).
NumTasks == 2
\* Requests accepted in one behaviour of Spec.
MaxCalls == 3
\* Turns of the sequential conversation (SpecSolo).
MaxTurns == 13
\* Chat calls on the one session of SpecTurns.
MaxConcurrentTurns == 7
\* Story selections on the one session of SpecStories.
MaxSelections == 8
\* Compliments generated on the one session of SpecCompliments.
MaxCompliments == 9
\* Chat and cleanup calls accepted in SpecLocks.
MaxLockCalls == 4

\* ------------------------------------------------------------------ text

LowerCase ==
    <<"a", "b", "c", "d", "e", "f", "g", "h", "i", "j", "k", "l", "m",
      "n", "o", "p", "q", "r", "s", "t", "u", "v", "w", "x", "y", "z">>

UpperCase ==
    <<"A", "B", "C", "D", "E", "F", "G", "H", "I", "J", "K", "L", "M",
      "N", "O", "P", "Q", "R", "S", "T", "U", "V", "W", "X", "Y", "Z">>

IndexOf(c, seq) ==
    IF \E i \in 1..Len(seq) : seq[i] = c
    THEN CHOOSE i \in 1..Len(seq) : seq[i] = c
    ELSE 0

IsUpper(c) == IndexOf(c, UpperCase) > 0
IsLower(c) == IndexOf(c, LowerCase) > 0
IsAlphaChar(c) == IsUpper(c) \/ IsLower(c)
IsSpace(c) == c = " "

ToLower(c) == IF IsUpper(c) THEN LowerCase[IndexOf(c, UpperCase)] ELSE c
ToUpper(c) == IF IsLower(c) THEN UpperCase[IndexOf(c, LowerCase)] ELSE c

\* str.lower()
lower(s) == [i \in 1..Len(s) |-> ToLower(s[i])]

\* `sub in s`
Contains(sub, s) ==
    \E i \in 0..(Len(s) - Len(sub)) : \A j \in 1..Len(sub) : s[i + j] = sub[j]

\* str.split(): the maximal runs of non-whitespace, in order.
RECURSIVE SplitFrom(_, _, _, _)
SplitFrom(s, i, cur, acc) ==
    IF i > Len(s)
    THEN IF cur = <<>> THEN acc ELSE Append(acc, cur)
    ELSE IF IsSpace(s[i])
         THEN SplitFrom(s, i + 1, <<>>, IF cur = <<>> THEN acc ELSE Append(acc, cur))
         ELSE SplitFrom(s, i + 1, Append(cur, s[i]), acc)

split(s) == SplitFrom(s, 1, <<>>, <<>>)

\* str.strip(chars): leading and trailing characters of `chars` removed.
strip(s, chars) ==
    LET keep == {i \in 1..Len(s) : s[i] \notin chars}
    IN  IF keep = {} THEN <<>>
        ELSE LET lo == CHOOSE i \in keep : \A j \in keep : i <= j
                 hi == CHOOSE i \in keep : \A j \in keep : j <= i
             IN  SubSeq(s, lo, hi)

\* str.title(): a letter is upper-cased after a non-letter, lower-cased after
\* a letter.
title(s) ==
    [i \in 1..Len(s) |->
        IF ~IsAlphaChar(s[i]) THEN s[i]
        ELSE IF i > 1 /\ IsAlphaChar(s[i - 1]) THEN ToLower(s[i]) ELSE ToUpper(s[i])]

\* str.replace(c, "")
remove(s, c) == SelectSeq(s, LAMBDA x : x # c)

\* str.isalpha()
isalpha(s) == Len(s) > 0 /\ \A i \in 1..Len(s) : IsAlphaChar(s[i])

\* ----------------------------------------------------------- data model

\* Optional[str] None: the empty tuple. The code tests the name only for
\* truthiness and stores only names longer than one character.
None == <<>>

\* ConversationStage
GREETING == "greeting"
GETTING_NAME == "getting_name"
BUILDING_RAPPORT == "building_rapport"
STORY_MODE == "story_mode"
COMPLIMENT_MODE == "compliment_mode"
INTERACTIVE_MODE == "interactive_mode"
CLOSING == "closing"

ConversationStage ==
    {GREETING, GETTING_NAME, BUILDING_RAPPORT, STORY_MODE, COMPLIMENT_MODE,
     INTERACTIVE_MODE, CLOSING}

\* UserMood (the two members the code assigns)
NEUTRAL == "neutral"
ENGAGED == "engaged"

\* PetPreference
DOGS == "dogs"
CATS == "cats"
BOTH == "both"
\* PetPreference.OTHER (OTHER is a reserved word of TLA+)
OTHER_PET == "other"
UNKNOWN == "unknown"

PetPreference == {DOGS, CATS, BOTH, OTHER_PET, UNKNOWN}

\* UserProfile(): the defaults of the fields the code reads or writes.
UserProfile ==
    [name |-> None,
     pet_preference |-> UNKNOWN,
     compliments_received |-> <<>>,
     stories_heard |-> <<>>,
     engagement_level |-> 5]

\* ConversationContext(session_id=..., user_profile=UserProfile())
ConversationContext(session_id) ==
    [session_id |-> session_id,
     stage |-> GREETING,
     user_profile |-> UserProfile,
     current_mood |-> NEUTRAL,
     messages_count |-> 0]


\* -------------------------------------------------------------- messages

\* "": the empty message (spec section 7)
MsgEmpty ==
    <<>>

\* "Hi": health_check's message
MsgHi ==
    <<"H", "i">>

\* "Hi, I'm Sarah and I love dogs!": the spec's example message
MsgSarah ==
    <<"H", "i", ",", " ", "I", "'", "m", " ", "S", "a", "r", "a", "h", " ",
      "a", "n", "d", " ", "I", " ", "l", "o", "v", "e", " ", "d", "o", "g",
      "s", "!">>

\* "My name is Sarah": test_chatbot's second message
MsgNameIs ==
    <<"M", "y", " ", "n", "a", "m", "e", " ", "i", "s", " ", "S", "a", "r",
      "a", "h">>

\* "Do you have any cat stories?": test_chatbot's last message
MsgCat ==
    <<"D", "o", " ", "y", "o", "u", " ", "h", "a", "v", "e", " ", "a", "n",
      "y", " ", "c", "a", "t", " ", "s", "t", "o", "r", "i", "e", "s", "?">>

\* "I'm Bob! How do cats and dogs get along? Amazing and adorable!": longer than 50 characters, every indicator kind
MsgLong ==
    <<"I", "'", "m", " ", "B", "o", "b", "!", " ", "H", "o", "w", " ", "d",
      "o", " ", "c", "a", "t", "s", " ", "a", "n", "d", " ", "d", "o", "g",
      "s", " ", "g", "e", "t", " ", "a", "l", "o", "n", "g", "?", " ", "A",
      "m", "a", "z", "i", "n", "g", " ", "a", "n", "d", " ", "a", "d", "o",
      "r", "a", "b", "l", "e", "!">>

\* "What time is it": "im" inside a word
MsgTime ==
    <<"W", "h", "a", "t", " ", "t", "i", "m", "e", " ", "i", "s", " ", "i",
      "t">>

\* The messages a caller may send.
Messages == {MsgEmpty, MsgHi, MsgSarah, MsgNameIs, MsgCat, MsgLong, MsgTime}

\* The messages sent to the concurrent service (Spec); the sequential
\* conversation (SpecSolo) sends every message.
ServiceMessages == {MsgHi, MsgSarah, MsgLong}

\* ----------------------------------------- profile extraction (chat.py)

name_patterns ==
    << [pattern |-> <<"n", "a", "m", "e", " ", "i", "s">>, offset |-> 2],
       [pattern |-> <<"c", "a", "l", "l", " ", "m", "e">>, offset |-> 2],
       [pattern |-> <<"i", "'", "m">>, offset |-> 1],
       [pattern |-> <<"i", "m">>, offset |-> 1],
       [pattern |-> <<"m", "y", " ", "n", "a", "m", "e", "'", "s">>, offset |-> 2],
       [pattern |-> <<"t", "h", "e", "y", " ", "c", "a", "l", "l", " ", "m", "e">>,
        offset |-> 3] >>

dog_indicators ==
    { <<"d", "o", "g">>,
      <<"p", "u", "p", "p", "y">>,
      <<"g", "o", "l", "d", "e", "n", " ", "r", "e", "t", "r", "i", "e", "v", "e", "r">>,
      <<"l", "a", "b", "r", "a", "d", "o", "r">>,
      <<"p", "o", "o", "d", "l", "e">> }

cat_indicators ==
    { <<"c", "a", "t">>,
      <<"k", "i", "t", "t", "e", "n">>,
      <<"f", "e", "l", "i", "n", "e">>,
      <<"t", "a", "b", "b", "y">>,
      <<"p", "e", "r", "s", "i", "a", "n">> }

enthusiasm_indicators ==
    { <<"!">>,
      <<"l", "o", "v", "e">>,
      <<"a", "m", "a", "z", "i", "n", "g">>,
      <<"a", "w", "e", "s", "o", "m", "e">>,
      <<"w", "o", "n", "d", "e", "r", "f", "u", "l">>,
      <<"c", "u", "t", "e">>,
      <<"a", "d", "o", "r", "a", "b", "l", "e">> }

question_indicators ==
    { <<"?">>,
      <<"h", "o", "w">>,
      <<"w", "h", "a", "t">>,
      <<"w", "h", "e", "n">>,
      <<"w", "h", "e", "r", "e">>,
      <<"w", "h", "y">> }

\* One pass of the loop over name_patterns (chat.py:180-192): the name the
\* pattern yields, or None. Only the first word that contains every word of
\* the pattern is looked at (the break of line 192).
NameFromPattern(message, p) ==
    IF ~Contains(p.pattern, lower(message)) THEN None
    ELSE LET words == split(message)
             pattern_words == split(p.pattern)
             hits == {i \in 1..Len(words) :
                        \A k \in 1..Len(pattern_words) :
                            Contains(pattern_words[k], lower(words[i]))}
         IN  IF hits = {} THEN None
             ELSE LET i == CHOOSE h \in hits : \A g \in hits : h <= g
                  IN  IF i + p.offset <= Len(words)
                      THEN LET potential_name ==
                                   title(strip(words[i + p.offset], {".", ",", "!", "?"}))
                           IN  IF Len(potential_name) > 1
                                  /\ isalpha(remove(potential_name, "'"))
                               THEN potential_name
                               ELSE None
                      ELSE None

\* The loop over name_patterns from pattern k on: the first pattern that
\* yields a name decides (chat.py:179-196).
RECURSIVE NameFrom(_, _)
NameFrom(message, k) ==
    IF k > Len(name_patterns) THEN None
    ELSE LET n == NameFromPattern(message, name_patterns[k])
         IN  IF n # None THEN n ELSE NameFrom(message, k + 1)

\* What the substring tests and the name scan find in each message, computed
\* once per message.
MessageEffect ==
    [m \in Messages |->
        [name |-> NameFrom(m, 1),
         has_dog |-> \E ind \in dog_indicators : Contains(ind, lower(m)),
         has_cat |-> \E ind \in cat_indicators : Contains(ind, lower(m)),
         enthusiasm |-> \E ind \in enthusiasm_indicators : Contains(ind, lower(m)),
         question |-> \E ind \in question_indicators : Contains(ind, lower(m))]]

\* A faulty variant of ExtractName: a later message that carries a name
\* replaces the name already set.
ExtractNameOverwriting(name, message) ==
    IF MessageEffect[message].name # None THEN MessageEffect[message].name ELSE name

\* chat.py:173-196: the scan runs only while the name is unset.
ExtractName(name, message) ==
    IF name = None THEN MessageEffect[message].name ELSE name

\* A faulty variant of ExtractPreference: a message with no indicator sets
\* the preference back to unknown.
ExtractPreferenceResetting(pet_preference, message) ==
    LET has_dog == MessageEffect[message].has_dog
        has_cat == MessageEffect[message].has_cat
    IN  IF has_dog /\ ~has_cat THEN DOGS
        ELSE IF has_cat /\ ~has_dog THEN CATS
        ELSE IF has_dog /\ has_cat THEN BOTH
        ELSE UNKNOWN

\* chat.py:202-210
ExtractPreference(pet_preference, message) ==
    LET has_dog == MessageEffect[message].has_dog
        has_cat == MessageEffect[message].has_cat
    IN  IF has_dog /\ ~has_cat THEN DOGS
        ELSE IF has_cat /\ ~has_dog THEN CATS
        ELSE IF has_dog /\ has_cat THEN BOTH
        ELSE pet_preference

Bit(b) == IF b THEN 1 ELSE 0

\* A faulty variant of engagement_boost: enthusiasm is not counted.
engagement_boost_without_enthusiasm(message) ==
      Bit(Len(message) > 50)
    + Bit(MessageEffect[message].question)
    - Bit(Len(message) < 5)

\* A faulty variant of engagement_boost: the empty message costs nothing.
engagement_boost_sparing_empty(message) ==
      Bit(Len(message) > 50)
    + Bit(MessageEffect[message].enthusiasm)
    + Bit(MessageEffect[message].question)
    - Bit(Len(message) < 5 /\ Len(message) > 0)

\* A faulty variant of engagement_boost: a short message costs 2.
engagement_boost_short_costs_two(message) ==
      Bit(Len(message) > 50)
    + Bit(MessageEffect[message].enthusiasm)
    + Bit(MessageEffect[message].question)
    - 2 * Bit(Len(message) < 5)

\* chat.py:216-224
engagement_boost(message) ==
      Bit(Len(message) > 50)
    + Bit(MessageEffect[message].enthusiasm)
    + Bit(MessageEffect[message].question)
    - Bit(Len(message) < 5)

Max(a, b) == IF a >= b THEN a ELSE b
Min(a, b) == IF a <= b THEN a ELSE b

\* A faulty variant of UpdateEngagement: the boost without the clamp.
UpdateEngagementUnclamped(engagement_level, message) ==
    engagement_level + engagement_boost(message)

\* chat.py:226-227
UpdateEngagement(engagement_level, message) ==
    Max(1, Min(10, engagement_level + engagement_boost(message)))

\* update_user_profile's effect on the context it fetched (chat.py:170-227).
ApplyMessage(context, message) ==
    [context EXCEPT
        !.user_profile.name = ExtractName(@, message),
        !.user_profile.pet_preference = ExtractPreference(@, message),
        !.user_profile.engagement_level = UpdateEngagement(@, message)]

\* ------------------------------------------- content library (chat.py)

\* _initialize_story_database: pet_stories, in library order, with the
\* fields select_appropriate_story reads.
pet_stories ==
    <<
      [id |-> "golden_coffee",
       theme |-> "loyalty",
       story |->
         <<"T", "h", "e", "r", "e", "'", "s", " ", "t", "h", "i", "s", " ", "g",
           "o", "l", "d", "e", "n", " ", "r", "e", "t", "r", "i", "e", "v", "e",
           "r", " ", "n", "a", "m", "e", "d", " ", "M", "a", "x", " ", "w", "h",
           "o", " ", "l", "e", "a", "r", "n", "e", "d", " ", "t", "o", " ", "b",
           "r", "i", "n", "g", " ", "h", "i", "s", " ", "o", "w", "n", "e", "r",
           " ", "c", "o", "f", "f", "e", "e", " ", "e", "v", "e", "r", "y", " ",
           "m", "o", "r", "n", "i", "n", "g", ".", " ", "H", "e", "'", "d", " ",
           "g", "e", "n", "t", "l", "y", " ", "c", "a", "r", "r", "y", " ", "t",
           "h", "e", " ", "m", "u", "g", " ", "i", "n", " ", "h", "i", "s", " ",
           "m", "o", "u", "t", "h", " ", "w", "i", "t", "h", "o", "u", "t", " ",
           "s", "p", "i", "l", "l", "i", "n", "g", " ", "a", " ", "d", "r", "o",
           "p", "!", " ", "T", "h", "e", " ", "o", "w", "n", "e", "r", " ", "s",
           "a", "i", "d", " ", "M", "a", "x", " ", "c", "o", "u", "l", "d", " ",
           "s", "e", "n", "s", "e", " ", "e", "x", "a", "c", "t", "l", "y", " ",
           "w", "h", "e", "n", " ", "s", "h", "e", " ", "n", "e", "e", "d", "e",
           "d", " ", "t", "h", "a", "t", " ", "e", "x", "t", "r", "a", " ", "b",
           "o", "o", "s", "t", " ", "o", "f", " ", "l", "o", "v", "e", ".">>],
      [id |-> "rescue_luna",
       theme |-> "selective_love",
       story |->
         <<"I", " ", "h", "e", "a", "r", "d", " ", "a", "b", "o", "u", "t", " ",
           "a", " ", "r", "e", "s", "c", "u", "e", " ", "c", "a", "t", " ", "n",
           "a", "m", "e", "d", " ", "L", "u", "n", "a", " ", "w", "h", "o", " ",
           "w", "a", "s", " ", "s", "o", " ", "s", "h", "y", " ", "a", "t", " ",
           "f", "i", "r", "s", "t", ",", " ", "b", "u", "t", " ", "s", "h", "e",
           " ", "c", "h", "o", "s", "e", " ", "o", "n", "e", " ", "s", "p", "e",
           "c", "i", "a", "l", " ", "p", "e", "r", "s", "o", "n", " ", "a", "t",
           " ", "t", "h", "e", " ", "s", "h", "e", "l", "t", "e", "r", " ", "a",
           "n", "d", " ", "w", "o", "u", "l", "d", "n", "'", "t", " ", "l", "e",
           "a", "v", "e", " ", "t", "h", "e", "i", "r", " ", "s", "i", "d", "e",
           ".", " ", "T", "h", "e", " ", "s", "t", "a", "f", "f", " ", "s", "a",
           "i", "d", " ", "s", "h", "e", " ", "h", "a", "d", " ", "i", "n", "c",
           "r", "e", "d", "i", "b", "l", "e", " ", "i", "n", "t", "u", "i", "t",
           "i", "o", "n", " ", "a", "b", "o", "u", "t", " ", "w", "h", "o", " ",
           "h", "a", "d", " ", "t", "h", "e", " ", "k", "i", "n", "d", "e", "s",
           "t", " ", "h", "e", "a", "r", "t", ".">>],
      [id |-> "therapy_bella",
       theme |-> "emotional_intelligence",
       story |->
         <<"T", "h", "e", "r", "e", "'", "s", " ", "a", " ", "t", "h", "e", "r",
           "a", "p", "y", " ", "d", "o", "g", " ", "n", "a", "m", "e", "d", " ",
           "B", "e", "l", "l", "a", " ", "w", "h", "o", " ", "v", "i", "s", "i",
           "t", "s", " ", "h", "o", "s", "p", "i", "t", "a", "l", "s", ",", " ",
           "a", "n", "d", " ", "s", "h", "e", " ", "a", "l", "w", "a", "y", "s",
           " ", "k", "n", "o", "w", "s", " ", "e", "x", "a", "c", "t", "l", "y",
           " ", "w", "h", "i", "c", "h", " ", "p", "a", "t", "i", "e", "n", "t",
           "s", " ", "n", "e", "e", "d", " ", "e", "x", "t", "r", "a", " ", "c",
           "u", "d", "d", "l", "e", "s", ".", " ", "T", "h", "e", " ", "n", "u",
           "r", "s", "e", "s", " ", "s", "a", "y", " ", "s", "h", "e", " ", "h",
           "a", "s", " ", "t", "h", "i", "s", " ", "a", "m", "a", "z", "i", "n",
           "g", " ", "a", "b", "i", "l", "i", "t", "y", " ", "t", "o", " ", "s",
           "e", "n", "s", "e", " ", "p", "e", "o", "p", "l", "e", "'", "s", " ",
           "e", "m", "o", "t", "i", "o", "n", "s", " ", "a", "n", "d", " ", "c",
           "o", "m", "f", "o", "r", "t", " ", "t", "h", "e", "m", ".">>],
      [id |-> "artist_oliver",
       theme |-> "appreciation",
       story |->
         <<"A", " ", "c", "a", "t", " ", "n", "a", "m", "e", "d", " ", "O", "l",
           "i", "v", "e", "r", " ", "u", "s", "e", "d", " ", "t", "o", " ", "b",
           "r", "i", "n", "g", " ", "h", "i", "s", " ", "o", "w", "n", "e", "r",
           " ", "l", "i", "t", "t", "l", "e", " ", "'", "g", "i", "f", "t", "s",
           "'", " ", "e", "v", "e", "r", "y", " ", "d", "a", "y", " ", "-", " ",
           "n", "o", "t", " ", "m", "i", "c", "e", ",", " ", "b", "u", "t", " ",
           "f", "l", "o", "w", "e", "r", "s", " ", "f", "r", "o", "m", " ", "t",
           "h", "e", " ", "g", "a", "r", "d", "e", "n", "!", " ", "H", "e", "'",
           "d", " ", "c", "a", "r", "e", "f", "u", "l", "l", "y", " ", "p", "i",
           "c", "k", " ", "t", "h", "e", " ", "p", "r", "e", "t", "t", "i", "e",
           "s", "t", " ", "o", "n", "e", "s", ",", " ", "l", "i", "k", "e", " ",
           "h", "e", " ", "k", "n", "e", "w", " ", "h", "i", "s", " ", "h", "u",
           "m", "a", "n", " ", "d", "e", "s", "e", "r", "v", "e", "d", " ", "b",
           "e", "a", "u", "t", "i", "f", "u", "l", " ", "t", "h", "i", "n", "g",
           "s", ".">>],
      [id |-> "painter_collie",
       theme |-> "creativity",
       story |->
         <<"T", "h", "e", "r", "e", "'", "s", " ", "t", "h", "i", "s", " ", "b",
           "o", "r", "d", "e", "r", " ", "c", "o", "l", "l", "i", "e", " ", "w",
           "h", "o", " ", "l", "e", "a", "r", "n", "e", "d", " ", "t", "o", " ",
           "p", "a", "i", "n", "t", "!", " ", "H", "i", "s", " ", "o", "w", "n",
           "e", "r", " ", "t", "a", "u", "g", "h", "t", " ", "h", "i", "m", " ",
           "t", "o", " ", "h", "o", "l", "d", " ", "b", "r", "u", "s", "h", "e",
           "s", ",", " ", "a", "n", "d", " ", "h", "i", "s", " ", "a", "r", "t",
           "w", "o", "r", "k", " ", "a", "c", "t", "u", "a", "l", "l", "y", " ",
           "s", "e", "l", "l", "s", " ", "f", "o", "r", " ", "c", "h", "a", "r",
           "i", "t", "y", ".", " ", "T", "h", "e", " ", "a", "m", "a", "z", "i",
           "n", "g", " ", "p", "a", "r", "t", "?", " ", "H", "i", "s", " ", "p",
           "a", "i", "n", "t", "i", "n", "g", "s", " ", "a", "r", "e", " ", "a",
           "l", "w", "a", "y", "s", " ", "i", "n", " ", "w", "a", "r", "m", ",",
           " ", "h", "a", "p", "p", "y", " ", "c", "o", "l", "o", "r", "s", ".">>],
      [id |-> "reading_cat",
       theme |-> "companionship",
       story |->
         <<"I", " ", "k", "n", "o", "w", " ", "a", " ", "c", "a", "t", " ", "n",
           "a", "m", "e", "d", " ", "W", "h", "i", "s", "k", "e", "r", "s", " ",
           "w", "h", "o", " ", "s", "i", "t", "s", " ", "w", "i", "t", "h", " ",
           "h", "i", "s", " ", "o", "w", "n", "e", "r", " ", "e", "v", "e", "r",
           "y", " ", "e", "v", "e", "n", "i", "n", "g", " ", "w", "h", "i", "l",
           "e", " ", "s", "h", "e", " ", "r", "e", "a", "d", "s", ".", " ", "H",
           "e", " ", "p", "u", "r", "r", "s", " ", "s", "o", " ", "c", "o", "n",
           "t", "e", "n", "t", "e", "d", "l", "y", ",", " ", "l", "i", "k", "e",
           " ", "h", "e", "'", "s", " ", "a", "c", "t", "u", "a", "l", "l", "y",
           " ", "l", "i", "s", "t", "e", "n", "i", "n", "g", " ", "t", "o", " ",
           "t", "h", "e", " ", "s", "t", "o", "r", "i", "e", "s", "!", " ", "T",
           "h", "e", " ", "o", "w", "n", "e", "r", " ", "s", "w", "e", "a", "r",
           "s", " ", "h", "e", " ", "h", "a", "s", " ", "f", "a", "v", "o", "r",
           "i", "t", "e", " ", "b", "o", "o", "k", "s", ".">>],
      [id |-> "dancing_parrot",
       theme |-> "joy_bringing",
       story |->
         <<"T", "h", "e", "r", "e", "'", "s", " ", "a", " ", "p", "a", "r", "r",
           "o", "t", " ", "n", "a", "m", "e", "d", " ", "R", "i", "o", " ", "w",
           "h", "o", " ", "d", "a", "n", "c", "e", "s", " ", "t", "o", " ", "m",
           "u", "s", "i", "c", " ", "w", "i", "t", "h", " ", "p", "e", "r", "f",
           "e", "c", "t", " ", "r", "h", "y", "t", "h", "m", "!", " ", "B", "u",
           "t", " ", "t", "h", "e", " ", "s", "w", "e", "e", "t", "e", "s", "t",
           " ", "p", "a", "r", "t", " ", "i", "s", " ", "h", "o", "w", " ", "h",
           "e", " ", "o", "n", "l", "y", " ", "d", "a", "n", "c", "e", "s", " ",
           "t", "o", " ", "h", "a", "p", "p", "y", " ", "s", "o", "n", "g", "s",
           " ", "-", " ", "h", "e", " ", "s", "e", "e", "m", "s", " ", "t", "o",
           " ", "k", "n", "o", "w", " ", "w", "h", "e", "n", " ", "h", "i", "s",
           " ", "f", "a", "m", "i", "l", "y", " ", "n", "e", "e", "d", "s", " ",
           "c", "h", "e", "e", "r", "i", "n", "g", " ", "u", "p", ".">>]
    >>

\* `sub in s["story"].lower()` for the two words the selection looks for,
\* computed once per story.
StoryMentions ==
    [k \in 1..Len(pet_stories) |->
        [dog |-> Contains(<<"d", "o", "g">>, lower(pet_stories[k].story)),
         cat |-> Contains(<<"c", "a", "t">>, lower(pet_stories[k].story))]]

\* The list comprehension [x for x in seq if Keep(x)], on indices of a list.
Filter(seq, Keep(_)) == SelectSeq(seq, Keep)

\* Indices of a tuple, in order.
Indices(seq) == [k \in 1..Len(seq) |-> k]

InSeq(x, seq) == \E k \in 1..Len(seq) : seq[k] = x

\* A faulty variant of select_appropriate_story: when every story was heard
\* the first story is told again and the list is kept.
select_story_without_reset(context) ==
    LET heard == context.user_profile.stories_heard
        unheard == SelectSeq([k \in 1..Len(pet_stories) |-> k],
                             LAMBDA k : \A i \in 1..Len(heard) : heard[i] # pet_stories[k].id)
        selected == IF unheard # <<>> THEN unheard[1] ELSE 1
    IN  [context |->
            [context EXCEPT !.user_profile.stories_heard =
                Append(@, pet_stories[selected].id)],
         selected |-> selected]

\* A faulty variant of select_appropriate_story: the stories heard are not
\* consulted, and the first story of the library is told again.
select_first_story(context) ==
    [context |->
        [context EXCEPT !.user_profile.stories_heard = Append(@, pet_stories[1].id)],
     selected |-> 1]

\* A faulty variant of select_appropriate_story: when every story was heard
\* the list is emptied but the candidates stay empty, so no story is told;
\* otherwise the first story not yet heard is told.
select_story_reset_without_library(context) ==
    LET heard == context.user_profile.stories_heard
        unheard == SelectSeq([k \in 1..Len(pet_stories) |-> k],
                             LAMBDA k : \A i \in 1..Len(heard) : heard[i] # pet_stories[k].id)
    IN  IF unheard = <<>>
        THEN [context |-> [context EXCEPT !.user_profile.stories_heard = <<>>],
              selected |-> 0]
        ELSE [context |->
                [context EXCEPT !.user_profile.stories_heard =
                    Append(@, pet_stories[unheard[1]].id)],
              selected |-> unheard[1]]

\* select_appropriate_story (chat.py:229-265): the context afterwards and
\* the story selected (its index in pet_stories; 0 for None). The candidate
\* lists hold indices into pet_stories.
select_appropriate_story(context) ==
    LET p == context.user_profile
        unheard == Filter(Indices(pet_stories),
                          LAMBDA k : ~InSeq(pet_stories[k].id, p.stories_heard))
        reset == unheard = <<>>
        heard == IF reset THEN <<>> ELSE p.stories_heard
        available0 == IF reset THEN Indices(pet_stories) ELSE unheard
        dog_stories == Filter(available0, LAMBDA k : StoryMentions[k].dog)
        cat_stories == Filter(available0, LAMBDA k : StoryMentions[k].cat)
        available1 ==
            IF p.pet_preference = DOGS
            THEN (IF dog_stories # <<>> THEN dog_stories ELSE available0)
            ELSE IF p.pet_preference = CATS
                 THEN (IF cat_stories # <<>> THEN cat_stories ELSE available0)
                 ELSE available0
        interactive_stories ==
            Filter(available1,
                   LAMBDA k : pet_stories[k].theme \in {"creativity", "joy_bringing"})
        available2 ==
            IF p.engagement_level > 7 /\ interactive_stories # <<>>
            THEN interactive_stories
            ELSE available1
        selected == IF available2 # <<>> THEN available2[1] ELSE 0
    IN  [context |->
            [context EXCEPT !.user_profile.stories_heard =
                IF selected # 0 THEN Append(heard, pet_stories[selected].id) ELSE heard],
         selected |-> selected]

\* generate_personalized_compliment (chat.py:269-291): the pool for a
\* preference, generic compliments first.
base_compliments(pet_preference) ==
    LET generic ==
            <<"You have that gentle energy that pets absolutely love - they can sense a kind heart from miles away!",
              "Just like golden retrievers, you seem like the type of person who brings joy wherever you go",
              "You remind me of those therapy animals who just know how to make everyone feel better",
              "There's something so graceful about you - like a cat who moves with perfect confidence",
              "You have that trustworthy vibe that makes you the kind of person pets (and people) want to be around forever",
              "Like the most loyal companion animals, you have this wonderful warmth about you",
              "You seem like someone who would be chosen by the most selective rescue pets - they have excellent taste!">>
    IN  IF pet_preference = DOGS
        THEN generic \o
             <<"You have that loyal, warm energy that dogs absolutely adore!",
               "Like a golden retriever's sunshine personality, you light up every room you enter!">>
        ELSE IF pet_preference = CATS
             THEN generic \o
                  <<"You have that gentle energy that cats absolutely love - they can sense a kind heart from miles away!",
                    "Like the most elegant felines, you have this graceful confidence that's absolutely magnetic!">>
             ELSE generic

\* seq[-n:]
LastN(seq, n) == SubSeq(seq, Max(1, Len(seq) - n + 1), Len(seq))

\* A faulty variant of generate_personalized_compliment: the compliments
\* received are not consulted, and the first of the pool is given again.
compliment_first_of_pool(context) ==
    LET selected == base_compliments(context.user_profile.pet_preference)[1]
    IN  [context |->
            [context EXCEPT !.user_profile.compliments_received = Append(@, selected)],
         selected |-> selected]

\* A faulty variant of generate_personalized_compliment: every compliment
\* received is excluded, not only the last three, and the whole pool is used
\* once all of it was given.
compliment_excluding_all_received(context) ==
    LET p == context.user_profile
        pool == base_compliments(p.pet_preference)
        filtered == SelectSeq(pool, LAMBDA c : \A k \in 1..Len(p.compliments_received) :
                                                  p.compliments_received[k] # c)
        selected == IF filtered = <<>> THEN pool[1] ELSE filtered[1]
    IN  [context |->
            [context EXCEPT !.user_profile.compliments_received = Append(@, selected)],
         selected |-> selected]

\* generate_personalized_compliment (chat.py:267-300): the context
\* afterwards and the compliment selected.
generate_personalized_compliment(context) ==
    LET p == context.user_profile
        pool == base_compliments(p.pet_preference)
        recent == LastN(p.compliments_received, 3)
        filtered == Filter(pool, LAMBDA c : ~InSeq(c, recent))
        available == IF filtered = <<>> THEN pool ELSE filtered
        selected == available[1]
    IN  [context |->
            [context EXCEPT !.user_profile.compliments_received = Append(@, selected)],
         selected |-> selected]

\* A faulty variant of build_context_prompt: a story is selected in
\* INTERACTIVE_MODE as well.
build_context_prompt_story_when_interactive(context) ==
    IF context.stage \in {STORY_MODE, INTERACTIVE_MODE}
    THEN select_appropriate_story(context).context
    ELSE IF context.stage = COMPLIMENT_MODE
         THEN generate_personalized_compliment(context).context
         ELSE context

\* build_context_prompt's effect on the context (chat.py:320-330): the
\* content selection of the stage. The prompt text goes to the external
\* model only.
build_context_prompt(context) ==
    IF context.stage = STORY_MODE
    THEN select_appropriate_story(context).context
    ELSE IF context.stage = COMPLIMENT_MODE
         THEN generate_personalized_compliment(context).context
         ELSE context

\* A faulty variant of determine_conversation_stage: the multiple of 4 is
\* tested before the multiple of 6.
determine_stage_compliment_first(context) ==
    IF context.user_profile.name = None /\ context.messages_count < 3
    THEN GETTING_NAME
    ELSE IF context.messages_count < 5
         THEN BUILDING_RAPPORT
         ELSE IF context.messages_count % 4 = 0
              THEN COMPLIMENT_MODE
              ELSE IF context.messages_count % 6 = 0
                   THEN STORY_MODE
                   ELSE INTERACTIVE_MODE

\* determine_conversation_stage (chat.py:352-363)
determine_conversation_stage(context) ==
    IF context.user_profile.name = None /\ context.messages_count < 3
    THEN GETTING_NAME
    ELSE IF context.messages_count < 5
         THEN BUILDING_RAPPORT
         ELSE IF context.messages_count % 6 = 0
              THEN STORY_MODE
              ELSE IF context.messages_count % 4 = 0
                   THEN COMPLIMENT_MODE
                   ELSE INTERACTIVE_MODE

\* A faulty variant of CountTurn: the stage is set and the count is not
\* advanced.
CountTurnWithoutIncrement(c) ==
    [c EXCEPT !.stage = determine_conversation_stage(c)]

\* A faulty variant of CountTurn: the count is advanced first and the stage
\* is computed from the advanced count.
CountTurnStageAfter(c) ==
    [c EXCEPT !.stage = determine_conversation_stage([c EXCEPT !.messages_count = @ + 1]),
              !.messages_count = @ + 1]

\* chat.py:375-376 on a context: the stage from the count before this turn,
\* then the count.
CountTurn(c) ==
    [c EXCEPT !.stage = determine_conversation_stage(c),
              !.messages_count = @ + 1]

\* chat's fallback_responses (chat.py:403-409), each by its opening words.
fallback_responses ==
    <<"I'm so happy you're chatting with me! ...",
      "You seem absolutely wonderful! ...",
      "There's something so special about you - I can just tell! ...",
      "Oh my, you're making me smile already! ...",
      "You have such a warm energy - I bet pets absolutely adore you! ...">>

\* A faulty variant of FallbackReply: no text at all.
FallbackReplyEmpty(context) == <<>>

\* chat.py:413-414: the reply as a tuple of pieces (the characters of the name
\* part when the name is set, then the response). Python lists index from 0.
FallbackReply(context) ==
    LET name_part ==
            IF context.user_profile.name # None
            THEN context.user_profile.name \o <<",", " ">>
            ELSE <<>>
    IN  name_part
        \o <<fallback_responses[(context.messages_count % Len(fallback_responses)) + 1]>>

\* ----------------------------------------------------------------- state

\* f"health_check_{hash('health')}" (main.py:248): one id per process.
HealthSessionId == "health_check"

\* The session ids callers use; health_check's id is a string like any other.
SessionIds == {"s1", HealthSessionId}

Tasks == 1..NumTasks

\* References to ConversationContext objects. A context is referenced by the
\* table or by a local of a task, so this many are live at most.
Refs == 1..(Cardinality(SessionIds) + NumTasks)

\* The texts the external model may return (response.content), as pieces.
ModelTexts == {<<>>, <<"model text">>}

VARIABLES
    active_sessions,   \* self.active_sessions: session id -> reference (a dict)
    heap,              \* the ConversationContext objects: reference -> context
    session_lock,      \* self._session_lock: 0 (free) or the task holding it
    running,           \* the task on the event loop, 0 when the loop is free
    pc,                \* each task's position
    call,              \* each task's request: op, session_id, message
    context,           \* chat's local `context` (a reference, 0 unbound)
    profile_context,   \* update_user_profile's local `context`
    result,            \* what the task's innermost finished call returned
    turns,             \* history: chat invocations per id since it was last removed
    serial,            \* history: per id, the context those invocations leave
                       \* when each runs to its end before the next starts
    ncalls,            \* history: requests accepted
    invoked            \* history: model invocations of each task's current call

vars ==
    <<active_sessions, heap, session_lock, running, pc, call, context,
      profile_context, result, turns, serial, ncalls, invoked>>

EmptyMap == [x \in {} |-> 0]

NoCall == [op |-> "none", session_id |-> "", message |-> <<>>]
NoResult == [kind |-> "none"]

Init ==
    /\ active_sessions = EmptyMap
    /\ heap = EmptyMap
    /\ session_lock = 0
    /\ running = 0
    /\ pc = [t \in Tasks |-> "idle"]
    /\ call = [t \in Tasks |-> NoCall]
    /\ context = [t \in Tasks |-> 0]
    /\ profile_context = [t \in Tasks |-> 0]
    /\ result = [t \in Tasks |-> NoResult]
    /\ turns = [sid \in SessionIds |-> 0]
    /\ serial = [sid \in SessionIds |-> ConversationContext(sid)]
    /\ ncalls = 0
    /\ invoked = [t \in Tasks |-> 0]

\* `session_id in self.active_sessions`
InTable(session_id) == session_id \in DOMAIN active_sessions

\* The context of a session in the table.
Session(session_id) == heap[active_sessions[session_id]]

\* dict and heap updates
Put(f, k, v) == [x \in DOMAIN f \cup {k} |-> IF x = k THEN v ELSE f[x]]
Del(f, k) == [x \in DOMAIN f \ {k} |-> f[x]]

\* Reference counting: an object no table entry and no local refers to is
\* freed.
Collect(h, table, ctx, pctx) ==
    LET live == {table[sid] : sid \in DOMAIN table}
                \cup {ctx[t] : t \in Tasks} \cup {pctx[t] : t \in Tasks}
    IN  [r \in DOMAIN h \cap live |-> h[r]]

NewRef(h) == CHOOSE r \in Refs \ DOMAIN h : \A q \in Refs \ DOMAIN h : r <= q

\* A faulty variant of get_or_create_session: a context is created and
\* stored whether or not the id has one.
create_session(table, h, session_id) ==
    LET r == NewRef(h)
    IN  [table |-> Put(table, session_id, r),
         heap |-> Put(h, r, ConversationContext(session_id)),
         ref |-> r]

\* A faulty variant of get_or_create_session: the context of an id that has
\* one is returned with its count set back to 0.
get_or_rewind_session(table, h, session_id) ==
    IF session_id \notin DOMAIN table
    THEN LET r == NewRef(h)
         IN  [table |-> Put(table, session_id, r),
              heap |-> Put(h, r, ConversationContext(session_id)),
              ref |-> r]
    ELSE [table |-> table,
          heap |-> [h EXCEPT ![table[session_id]].messages_count = 0],
          ref |-> table[session_id]]

\* A faulty variant of get_or_create_session: an id without a context gets
\* the context object of another id when the table holds one.
get_or_share_session(table, h, session_id) ==
    IF session_id \in DOMAIN table
    THEN [table |-> table, heap |-> h, ref |-> table[session_id]]
    ELSE IF DOMAIN table # {}
         THEN LET r == table[CHOOSE sid \in DOMAIN table : TRUE]
              IN  [table |-> Put(table, session_id, r), heap |-> h, ref |-> r]
         ELSE LET r == NewRef(h)
              IN  [table |-> Put(table, session_id, r),
                   heap |-> Put(h, r, ConversationContext(session_id)),
                   ref |-> r]

\* The body of get_or_create_session under the lock (chat.py:159-165): the
\* table and heap afterwards and the reference returned.
get_or_create_session(table, h, session_id) ==
    IF session_id \notin DOMAIN table
    THEN LET r == NewRef(h)
         IN  [table |-> Put(table, session_id, r),
              heap |-> Put(h, r, ConversationContext(session_id)),
              ref |-> r]
    ELSE [table |-> table, heap |-> h, ref |-> table[session_id]]

\* get_session_stats (chat.py:418-434)
get_session_stats(table, h, session_id) ==
    IF session_id \notin DOMAIN table
    THEN [kind |-> "none"]
    ELSE LET c == h[table[session_id]]
         IN  [kind |-> "stats",
              session_id |-> session_id,
              messages_count |-> c.messages_count,
              stage |-> c.stage,
              user_name |-> c.user_profile.name,
              pet_preference |-> c.user_profile.pet_preference,
              engagement_level |-> c.user_profile.engagement_level,
              stories_heard |-> Len(c.user_profile.stories_heard),
              compliments_received |-> Len(c.user_profile.compliments_received),
              current_mood |-> c.current_mood]

\* A faulty variant of cleanup_session: True for a stored id whose entry
\* stays.
cleanup_session_keeping(table, session_id) ==
    [table |-> table, value |-> session_id \in DOMAIN table]

\* The body of cleanup_session under the lock (chat.py:439-443): the table
\* afterwards and the value returned.
cleanup_session(table, session_id) ==
    IF session_id \in DOMAIN table
    THEN [table |-> Del(table, session_id), value |-> TRUE]
    ELSE [table |-> table, value |-> FALSE]

\* `if session_id in chatbot.active_sessions: del ...` of the HTTP handlers
\* (main.py:201-202, 225-226, 252-253).
DeleteIfPresent(table, session_id) ==
    IF session_id \in DOMAIN table THEN Del(table, session_id) ELSE table

\* One whole turn on a context with nothing in between: update_user_profile,
\* the stage and the count, the content selection (chat.py:372-379).
SerialTurn(c, message) == build_context_prompt(CountTurn(ApplyMessage(c, message)))

\* The history of a session id whose entry a step removes starts again.
Forget(session_id, table) ==
    /\ turns' = IF session_id \in DOMAIN active_sessions /\ session_id \notin DOMAIN table
                THEN [turns EXCEPT ![session_id] = 0]
                ELSE turns
    /\ serial' = IF session_id \in DOMAIN active_sessions /\ session_id \notin DOMAIN table
                 THEN [serial EXCEPT ![session_id] = ConversationContext(session_id)]
                 ELSE serial

\* --------------------------------------------------------------- actions

\* Where each operation starts. chat and health_check (which calls chat
\* first, main.py:248) start at chat's first get_or_create_session.
Entry(op) ==
    CASE op = "chat" -> "chat_lock"
      [] op = "health_check" -> "chat_lock"
      [] op = "cleanup_session" -> "cleanup_lock"
      [] op = "get_session_stats" -> "stats"
      [] op = "get_all_sessions" -> "all_sessions"
      [] op = "clear_session" -> "clear"
      [] op = "reset_session" -> "reset"
      [] op = "list_active_sessions" -> "list"

\* The requests a caller may make.
ChatCalls ==
    [op : {"chat"}, session_id : SessionIds, message : ServiceMessages]

SessionCalls ==
    [op : {"cleanup_session", "get_session_stats", "clear_session", "reset_session"},
     session_id : SessionIds, message : {<<>>}]

TableCalls ==
    [op : {"get_all_sessions", "list_active_sessions"},
     session_id : {""}, message : {<<>>}]

HealthCalls ==
    [op : {"health_check"}, session_id : {HealthSessionId}, message : {MsgHi}]

\* A request arrives and its handler starts on the free event loop.
Call(t, c) ==
    /\ running = 0
    /\ pc[t] = "idle"
    /\ running' = t
    /\ pc' = [pc EXCEPT ![t] = Entry(c.op)]
    /\ call' = [call EXCEPT ![t] = c]
    /\ turns' = IF c.op \in {"chat", "health_check"}
                THEN [turns EXCEPT ![c.session_id] = @ + 1]
                ELSE turns
    /\ serial' = IF c.op \in {"chat", "health_check"}
                 THEN [serial EXCEPT ![c.session_id] = SerialTurn(@, c.message)]
                 ELSE serial
    /\ ncalls' = ncalls + 1
    /\ invoked' = [invoked EXCEPT ![t] = 0]
    /\ UNCHANGED <<active_sessions, heap, session_lock, context, profile_context, result>>

\* Where a task continues once it holds the lock.
Locked(p) ==
    CASE p = "chat_lock" -> "chat_session"
      [] p = "update_lock" -> "update_session"
      [] p = "fallback_lock" -> "fallback_session"
      [] p = "cleanup_lock" -> "cleanup"

LockPoints == {"chat_lock", "update_lock", "fallback_lock", "cleanup_lock"}

\* `async with self._session_lock` (chat.py:158, 438): asyncio.Lock.acquire
\* takes a free lock without suspending; on a held lock the task suspends and
\* takes the lock when it is free and the loop runs it again.
AcquireLock(t) ==
    /\ pc[t] \in LockPoints
    /\ running \in {0, t}
    /\ IF session_lock = 0
       THEN /\ session_lock' = t
            /\ running' = t
            /\ pc' = [pc EXCEPT ![t] = Locked(pc[t])]
       ELSE /\ running = t
            /\ running' = 0
            /\ UNCHANGED <<invoked, session_lock, pc>>
    /\ UNCHANGED <<invoked, active_sessions, heap, call, context, profile_context, result,
                   turns, serial, ncalls>>

\* Where get_or_create_session returns to.
Fetched(p) ==
    CASE p = "chat_session" -> "update_lock"
      [] p = "update_session" -> "update_profile"
      [] p = "fallback_session" -> "fallback_reply"

SessionPoints == {"chat_session", "update_session", "fallback_session"}

\* A faulty variant of GetOrCreateSession: the context is fetched and
\* returned, and the lock is not released.
GetOrCreateSessionKeepingLock(t) ==
    /\ running = t
    /\ pc[t] \in SessionPoints
    /\ session_lock = t
    /\ LET got == get_or_create_session(active_sessions, heap, call[t].session_id)
           ctx == IF pc[t] = "update_session" THEN context
                  ELSE [context EXCEPT ![t] = got.ref]
           pctx == IF pc[t] = "update_session"
                   THEN [profile_context EXCEPT ![t] = got.ref]
                   ELSE profile_context
       IN  /\ active_sessions' = got.table
           /\ context' = ctx
           /\ profile_context' = pctx
           /\ heap' = Collect(got.heap, got.table, ctx, pctx)
    /\ pc' = [pc EXCEPT ![t] = Fetched(pc[t])]
    /\ UNCHANGED <<invoked, session_lock, running, call, result, turns, serial, ncalls>>

\* get_or_create_session under the lock, the release of the lock, and the
\* binding of the returned context to the caller's local: chat's `context`
\* (chat.py:369, 412) or update_user_profile's (chat.py:169).
GetOrCreateSession(t) ==
    /\ running = t
    /\ pc[t] \in SessionPoints
    /\ session_lock = t
    /\ LET got == get_or_create_session(active_sessions, heap, call[t].session_id)
           ctx == IF pc[t] = "update_session" THEN context
                  ELSE [context EXCEPT ![t] = got.ref]
           pctx == IF pc[t] = "update_session"
                   THEN [profile_context EXCEPT ![t] = got.ref]
                   ELSE profile_context
       IN  /\ active_sessions' = got.table
           /\ context' = ctx
           /\ profile_context' = pctx
           /\ heap' = Collect(got.heap, got.table, ctx, pctx)
    /\ session_lock' = 0
    /\ pc' = [pc EXCEPT ![t] = Fetched(pc[t])]
    /\ UNCHANGED <<invoked, running, call, result, turns, serial, ncalls>>

\* update_user_profile after its fetch (chat.py:170-227); its local dies when
\* it returns.
UpdateUserProfile(t) ==
    /\ running = t
    /\ pc[t] = "update_profile"
    /\ LET h == [heap EXCEPT ![profile_context[t]] = ApplyMessage(@, call[t].message)]
           pctx == [profile_context EXCEPT ![t] = 0]
       IN  /\ profile_context' = pctx
           /\ heap' = Collect(h, active_sessions, context, pctx)
    /\ pc' = [pc EXCEPT ![t] = "turn"]
    /\ UNCHANGED <<invoked, active_sessions, session_lock, running, call, context, result,
                   turns, serial, ncalls>>

\* chat.py:375-390: the stage, the count, the prompt with its content
\* selection, and the submission of the model call to the executor, on which
\* the task suspends. The message is not read again after the submission.
ChatTurn(t) ==
    /\ running = t
    /\ pc[t] = "turn"
    /\ heap' = [heap EXCEPT ![context[t]] = build_context_prompt(CountTurn(@))]
    /\ pc' = [pc EXCEPT ![t] = "model_call"]
    /\ call' = [call EXCEPT ![t].message = <<>>]
    /\ running' = 0
    /\ invoked' = [invoked EXCEPT ![t] = @ + 1]
    /\ UNCHANGED <<active_sessions, session_lock, context, profile_context, result,
                   turns, serial, ncalls>>

\* Where chat returns to: its caller, or health_check's cleanup.
Returned(op) == IF op = "health_check" THEN "health_cleanup" ELSE "done"

\* chat.py:394: what the success path does to chat's context.
Succeeded(c) == [c EXCEPT !.current_mood = ENGAGED]

\* chat.py:391-397: the model call returned `text`.
ModelReturns(t, text) ==
    /\ running = 0
    /\ pc[t] = "model_call"
    /\ running' = t
    /\ heap' = [heap EXCEPT ![context[t]] = Succeeded(@)]
    /\ result' = [result EXCEPT ![t] = [kind |-> "reply", text |-> text]]
    /\ pc' = [pc EXCEPT ![t] = Returned(call[t].op)]
    /\ UNCHANGED <<invoked, active_sessions, session_lock, call, context, profile_context,
                   turns, serial, ncalls>>

\* A faulty variant of ModelFails: a model call that raised is submitted
\* again, up to three invocations.
ModelFailsAndRetries(t) ==
    /\ running = 0
    /\ pc[t] = "model_call"
    /\ invoked[t] < 3
    /\ invoked' = [invoked EXCEPT ![t] = @ + 1]
    /\ UNCHANGED <<active_sessions, heap, session_lock, running, pc, call, context,
                   profile_context, result, turns, serial, ncalls>>

\* chat.py:399-412: the model call raised; the handler fetches the session
\* again.
ModelFails(t) ==
    /\ running = 0
    /\ pc[t] = "model_call"
    /\ running' = t
    /\ pc' = [pc EXCEPT ![t] = "fallback_lock"]
    /\ UNCHANGED <<invoked, active_sessions, heap, session_lock, call, context,
                   profile_context, result, turns, serial, ncalls>>

\* chat.py:413-414
ChatFallback(t) ==
    /\ running = t
    /\ pc[t] = "fallback_reply"
    /\ result' = [result EXCEPT ![t] =
                    [kind |-> "reply", text |-> FallbackReply(heap[context[t]])]]
    /\ pc' = [pc EXCEPT ![t] = Returned(call[t].op)]
    /\ UNCHANGED <<invoked, active_sessions, heap, session_lock, running, call, context,
                   profile_context, turns, serial, ncalls>>

\* cleanup_session under the lock, and the release (chat.py:439-443).
CleanupSession(t) ==
    /\ running = t
    /\ pc[t] = "cleanup"
    /\ session_lock = t
    /\ LET did == cleanup_session(active_sessions, call[t].session_id)
       IN  /\ active_sessions' = did.table
           /\ heap' = Collect(heap, did.table, context, profile_context)
           /\ result' = [result EXCEPT ![t] = [kind |-> "bool", value |-> did.value]]
           /\ Forget(call[t].session_id, did.table)
    /\ session_lock' = 0
    /\ pc' = [pc EXCEPT ![t] = "done"]
    /\ UNCHANGED <<invoked, running, call, context, profile_context, ncalls>>

\* get_session_stats (chat.py:418-434)
GetSessionStats(t) ==
    /\ running = t
    /\ pc[t] = "stats"
    /\ result' = [result EXCEPT ![t] =
                    get_session_stats(active_sessions, heap, call[t].session_id)]
    /\ pc' = [pc EXCEPT ![t] = "done"]
    /\ UNCHANGED <<invoked, active_sessions, heap, session_lock, running, call, context,
                   profile_context, turns, serial, ncalls>>

\* get_all_sessions (chat.py:445-452); the list as the set of its records.
GetAllSessions(t) ==
    /\ running = t
    /\ pc[t] = "all_sessions"
    /\ result' = [result EXCEPT ![t] =
                    [kind |-> "list",
                     sessions |-> {get_session_stats(active_sessions, heap, sid) :
                                     sid \in DOMAIN active_sessions}]]
    /\ pc' = [pc EXCEPT ![t] = "done"]
    /\ UNCHANGED <<invoked, active_sessions, heap, session_lock, running, call, context,
                   profile_context, turns, serial, ncalls>>

\* DELETE /session/{session_id} (main.py:190-211)
ClearSession(t) ==
    /\ running = t
    /\ pc[t] = "clear"
    /\ LET table == DeleteIfPresent(active_sessions, call[t].session_id)
       IN  /\ active_sessions' = table
           /\ heap' = Collect(heap, table, context, profile_context)
           /\ result' = [result EXCEPT ![t] =
                           [kind |-> "http",
                            status |-> IF InTable(call[t].session_id) THEN 200 ELSE 404]]
           /\ Forget(call[t].session_id, table)
    /\ pc' = [pc EXCEPT ![t] = "done"]
    /\ UNCHANGED <<invoked, session_lock, running, call, context, profile_context, ncalls>>

\* POST /session/{session_id}/reset (main.py:213-239). get_or_create_session
\* is called without await (main.py:229): the coroutine never runs, reading
\* .stage on it raises AttributeError, and the handler answers 500.
ResetSession(t) ==
    /\ running = t
    /\ pc[t] = "reset"
    /\ LET table == DeleteIfPresent(active_sessions, call[t].session_id)
       IN  /\ active_sessions' = table
           /\ heap' = Collect(heap, table, context, profile_context)
           /\ Forget(call[t].session_id, table)
    /\ result' = [result EXCEPT ![t] = [kind |-> "http", status |-> 500]]
    /\ pc' = [pc EXCEPT ![t] = "done"]
    /\ UNCHANGED <<invoked, session_lock, running, call, context, profile_context, ncalls>>

\* GET /sessions (main.py:164-188); the list as the set of its records.
ListActiveSessions(t) ==
    /\ running = t
    /\ pc[t] = "list"
    /\ result' = [result EXCEPT ![t] =
                    [kind |-> "http", status |-> 200,
                     active_sessions |-> Cardinality(DOMAIN active_sessions),
                     sessions |->
                        {[session_id |-> sid,
                          user_name |-> Session(sid).user_profile.name,
                          message_count |-> Session(sid).messages_count,
                          conversation_stage |-> Session(sid).stage,
                          pet_preference |-> Session(sid).user_profile.pet_preference,
                          engagement_level |-> Session(sid).user_profile.engagement_level] :
                            sid \in DOMAIN active_sessions}]]
    /\ pc' = [pc EXCEPT ![t] = "done"]
    /\ UNCHANGED <<invoked, active_sessions, heap, session_lock, running, call, context,
                   profile_context, turns, serial, ncalls>>

\* GET /health after its chat returned (main.py:250-261).
HealthCleanup(t) ==
    /\ running = t
    /\ pc[t] = "health_cleanup"
    /\ LET table == DeleteIfPresent(active_sessions, HealthSessionId)
       IN  /\ active_sessions' = table
           /\ heap' = Collect(heap, table, context, profile_context)
           /\ Forget(HealthSessionId, table)
           /\ result' = [result EXCEPT ![t] =
                           [kind |-> "http", status |-> 200,
                            active_sessions |-> Cardinality(DOMAIN table),
                            test_response_received |-> result[t].text # <<>>]]
    /\ pc' = [pc EXCEPT ![t] = "done"]
    /\ UNCHANGED <<invoked, session_lock, running, call, context, profile_context, ncalls>>

\* The handler returns: its locals die and the event loop is free.
Return(t) ==
    /\ running = t
    /\ pc[t] = "done"
    /\ running' = 0
    /\ pc' = [pc EXCEPT ![t] = "idle"]
    /\ call' = [call EXCEPT ![t] = NoCall]
    /\ result' = [result EXCEPT ![t] = NoResult]
    /\ LET ctx == [context EXCEPT ![t] = 0]
       IN  /\ context' = ctx
           /\ heap' = Collect(heap, active_sessions, ctx, profile_context)
    /\ invoked' = [invoked EXCEPT ![t] = 0]
    /\ UNCHANGED <<active_sessions, session_lock, profile_context, turns, serial, ncalls>>

\* ----------------------------------------------------------- the service

\* One step of a handler that is on the event loop or can be put on it.
Step(t) ==
    \/ AcquireLock(t)
    \/ GetOrCreateSession(t)
    \/ UpdateUserProfile(t)
    \/ ChatTurn(t)
    \/ \E text \in ModelTexts : ModelReturns(t, text)
    \/ ModelFails(t)
    \/ ChatFallback(t)
    \/ CleanupSession(t)
    \/ GetSessionStats(t)
    \/ GetAllSessions(t)
    \/ ClearSession(t)
    \/ ResetSession(t)
    \/ ListActiveSessions(t)
    \/ HealthCleanup(t)
    \/ Return(t)

\* Requests arrive while fewer than MaxCalls were accepted.
Accept(t, c) == ncalls < MaxCalls /\ Call(t, c)

Next ==
    \/ \E t \in Tasks :
         \E c \in ChatCalls \cup SessionCalls \cup TableCalls \cup HealthCalls :
            Accept(t, c)
    \/ \E t \in Tasks : Step(t)

Spec == Init /\ [][Next]_vars

\* ------------------------------------- concurrent turns of one session

\* The messages of the concurrent turns.
TurnMessages == {MsgHi, MsgSarah, MsgLong}

\* Chat calls on one session from every task, any number of them in flight,
\* and nothing that removes the session.
AcceptTurn(t, message) ==
    /\ ncalls < MaxConcurrentTurns
    /\ Call(t, [op |-> "chat", session_id |-> "s1", message |-> message])

NextTurns ==
    \/ \E t \in Tasks : \E message \in TurnMessages : AcceptTurn(t, message)
    \/ \E t \in Tasks : AcquireLock(t)
    \/ \E t \in Tasks : GetOrCreateSession(t)
    \/ \E t \in Tasks : UpdateUserProfile(t)
    \/ \E t \in Tasks : ChatTurn(t)
    \/ \E t \in Tasks : \E text \in ModelTexts : ModelReturns(t, text)
    \/ \E t \in Tasks : ModelFails(t)
    \/ \E t \in Tasks : ChatFallback(t)
    \/ \E t \in Tasks : Return(t)

SpecTurns == Init /\ [][NextTurns]_vars

\* ------------------------------------------- a sequential conversation

\* test_chatbot (chat.py:458-494): one conversation on one session, each
\* chat followed by get_session_stats, with any message at each turn.
SoloSession == "s1"

SoloCall(c) ==
    /\ ncalls < 2 * MaxTurns
    /\ IF ncalls % 2 = 0
       THEN c \in [op : {"chat"}, session_id : {SoloSession}, message : Messages]
       ELSE c = [op |-> "get_session_stats", session_id |-> SoloSession, message |-> <<>>]
    /\ Call(1, c)

NextSolo ==
    \/ \E c \in [op : {"chat"}, session_id : {SoloSession}, message : Messages]
                \cup SessionCalls : SoloCall(c)
    \/ AcquireLock(1)
    \/ GetOrCreateSession(1)
    \/ UpdateUserProfile(1)
    \/ ChatTurn(1)
    \/ \E text \in ModelTexts : ModelReturns(1, text)
    \/ ModelFails(1)
    \/ ChatFallback(1)
    \/ GetSessionStats(1)
    \/ Return(1)

SpecSolo == Init /\ [][NextSolo]_vars

\* -------------------------------------------- story selection by itself

\* Consecutive select_appropriate_story calls on one stored session, with
\* update_user_profile applying any message, and so any preference and
\* engagement level, between them. The session was fetched once
\* (chat.py:159-165); ncalls counts the selections.
InitStories ==
    LET got == get_or_create_session(EmptyMap, EmptyMap, SoloSession)
    IN  /\ active_sessions = got.table
        /\ heap = got.heap
        /\ session_lock = 0
        /\ running = 0
        /\ pc = [t \in Tasks |-> "idle"]
        /\ call = [t \in Tasks |-> NoCall]
        /\ context = [t \in Tasks |-> 0]
        /\ profile_context = [t \in Tasks |-> 0]
        /\ result = [t \in Tasks |-> NoResult]
        /\ turns = [sid \in SessionIds |-> 0]
        /\ serial = [sid \in SessionIds |-> ConversationContext(sid)]
        /\ ncalls = 0
        /\ invoked = [t \in Tasks |-> 0]

\* chat.py:325: one selection on the stored context; `result` keeps the
\* story returned.
SelectStory ==
    /\ ncalls < MaxSelections
    /\ LET told == select_appropriate_story(Session(SoloSession))
       IN  /\ heap' = [heap EXCEPT ![active_sessions[SoloSession]] = told.context]
           /\ result' = [result EXCEPT ![1] = [kind |-> "story", selected |-> told.selected]]
    /\ ncalls' = ncalls + 1
    /\ UNCHANGED <<invoked, active_sessions, session_lock, running, pc, call, context,
                   profile_context, turns, serial>>

\* chat.py:170-227 on the stored context.
ApplyToProfile(message) ==
    /\ heap' = [heap EXCEPT ![active_sessions[SoloSession]] = ApplyMessage(@, message)]
    /\ UNCHANGED <<invoked, active_sessions, session_lock, running, pc, call, context,
                   profile_context, result, turns, serial, ncalls>>

NextStories ==
    \/ SelectStory
    \/ \E message \in Messages : ApplyToProfile(message)

SpecStories == InitStories /\ [][NextStories]_vars


\* --------------------------------------- compliment generation by itself

\* Consecutive generate_personalized_compliment calls on one stored session,
\* with update_user_profile applying any message, and so any preference,
\* between them; ncalls counts the compliments.

\* chat.py:329: one compliment for the stored context; `result` keeps the
\* compliment returned.
GiveCompliment ==
    /\ ncalls < MaxCompliments
    /\ LET given == generate_personalized_compliment(Session(SoloSession))
       IN  /\ heap' = [heap EXCEPT ![active_sessions[SoloSession]] = given.context]
           /\ result' = [result EXCEPT ![1] = [kind |-> "compliment",
                                               selected |-> given.selected]]
    /\ ncalls' = ncalls + 1
    /\ UNCHANGED <<invoked, active_sessions, session_lock, running, pc, call, context,
                   profile_context, turns, serial>>

NextCompliments ==
    \/ GiveCompliment
    \/ \E message \in Messages : ApplyToProfile(message)

SpecCompliments == InitStories /\ [][NextCompliments]_vars

\* ------------------------------------------- chat and cleanup under load

\* Chat and cleanup_session calls on the session ids from every task, and
\* the event loop's scheduling: asyncio runs every ready task in turn, so a
\* handler that can take a step takes it. The completion of a model call,
\* with a result or an exception, is a step of its task like the others.
LockCalls ==
    [op : {"chat"}, session_id : {"s1"}, message : {MsgHi, MsgSarah}]
    \cup [op : {"cleanup_session"}, session_id : {"s1"}, message : {<<>>}]

AcceptLockCall(t, c) == ncalls < MaxLockCalls /\ Call(t, c)

LockStep(t) ==
    \/ AcquireLock(t)
    \/ GetOrCreateSession(t)
    \/ UpdateUserProfile(t)
    \/ ChatTurn(t)
    \/ \E text \in ModelTexts : ModelReturns(t, text)
    \/ ModelFails(t)
    \/ ChatFallback(t)
    \/ CleanupSession(t)
    \/ Return(t)

NextLocks ==
    \/ \E t \in Tasks : \E c \in LockCalls : AcceptLockCall(t, c)
    \/ \E t \in Tasks : LockStep(t)

SpecLocks == Init /\ [][NextLocks]_vars /\ \A t \in Tasks : WF_vars(LockStep(t))
\* ------------------------------------------------------------ properties

\* The operations that run chat.
ChatOps == {"chat", "health_check"}

\* C1 as the specification words it: every reply chat returns, on the
\* success path too, is a non-empty string.
C1_EveryReplyNonEmpty ==
    \A t \in Tasks :
        (call[t].op \in ChatOps /\ result[t].kind = "reply") => result[t].text # <<>>

\* C1 (corrected): chat never raises and always returns a string. When the
\* model call fails the string is the fallback reply, which is non-empty;
\* when it succeeds the string is the model's text as it came, empty or not.
\* The turn advances the count of its context by 1 before the model call, and
\* nothing on the failure path changes the count of any context.
C1_ChatAlwaysReplies ==
    /\ [](\A t \in Tasks :
            (call[t].op = "chat" /\ pc[t] = "done") => result[t].kind = "reply")
    /\ [][\A t \in Tasks :
            /\ (pc[t] = "model_call" /\ pc'[t] # "model_call") =>
                  \/ pc'[t] = "fallback_lock"
                  \/ /\ pc'[t] = Returned(call[t].op)
                     /\ result'[t].kind = "reply"
                     /\ result'[t].text \in ModelTexts
            /\ (pc[t] = "fallback_reply" /\ pc'[t] # "fallback_reply") =>
                  /\ pc'[t] = Returned(call[t].op)
                  /\ result'[t].kind = "reply"
                  /\ result'[t].text # <<>>
            /\ (pc[t] = "turn" /\ pc'[t] # "turn") =>
                  /\ pc'[t] = "model_call"
                  /\ heap'[context[t]].messages_count
                        = heap[context[t]].messages_count + 1
            /\ (pc[t] \in {"fallback_lock", "fallback_session", "fallback_reply"}
                /\ pc'[t] # pc[t]) =>
                  \A r \in DOMAIN heap \cap DOMAIN heap' :
                      heap'[r].messages_count = heap[r].messages_count
       ]_vars

\* A chat whose model call failed has returned the fallback reply, and the
\* context it answers from has counted the turn.
C1_Witness ==
    \E t \in Tasks :
        /\ call[t].op = "chat"
        /\ pc[t] = "done"
        /\ result[t].kind = "reply"
        /\ result[t].text \notin ModelTexts
        /\ result[t].text # <<>>
        /\ heap[context[t]].messages_count = 1

\* C2: a session's messages_count starts at 0, each chat invocation on its id
\* advances it by exactly 1 whether the model call succeeds or fails, and it
\* never decreases: whenever no handler is on the event loop, the count of a
\* stored session is the number of chat invocations on its id since the id
\* was last absent.
C2_CountIsInvocations ==
    /\ [](\A sid \in SessionIds :
            (running = 0 /\ InTable(sid)) => Session(sid).messages_count = turns[sid])
    /\ [][/\ \A r \in DOMAIN heap' \ DOMAIN heap : heap'[r].messages_count = 0
          /\ \A r \in DOMAIN heap \cap DOMAIN heap' :
                \/ heap'[r].messages_count = heap[r].messages_count
                \/ heap'[r].messages_count = heap[r].messages_count + 1
       ]_vars

\* MaxCalls chat calls on one session have completed, each by the fallback
\* path, and the count is MaxCalls.
C2_Witness ==
    /\ \A t \in Tasks : pc[t] = "idle"
    /\ ncalls = MaxCalls
    /\ InTable("s1")
    /\ turns["s1"] = MaxCalls
    /\ Session("s1").messages_count = MaxCalls
    /\ Session("s1").current_mood = NEUTRAL

\* C3: the engagement level of every context is between 1 and 10, whatever
\* messages were applied.
C3_EngagementInRange ==
    \A r \in DOMAIN heap :
        /\ heap[r].user_profile.engagement_level >= 1
        /\ heap[r].user_profile.engagement_level <= 10

\* The second long, enthusiastic question was applied: 5 + 3 + 3 is held
\* at 10.
C3_Witness ==
    /\ pc[1] = "turn"
    /\ call[1].message = MsgLong
    /\ heap[context[1]].messages_count = 1
    /\ heap[context[1]].user_profile.engagement_level = 10

\* The positions at which a handler reads or writes active_sessions.
TableAccessPoints ==
    {"chat_session", "update_session", "fallback_session", "cleanup",
     "stats", "all_sessions", "clear", "reset", "list", "health_cleanup"}

\* C4: every handler that is about to read or write the session table holds
\* the session lock.
C4_TableAccessHoldsLock ==
    \A t \in Tasks : pc[t] \in TableAccessPoints => session_lock = t

\* What C5 compares of two contexts: all but the mood, which the reply sets.
TurnState(c) ==
    [stage |-> c.stage, messages_count |-> c.messages_count,
     user_profile |-> c.user_profile]

\* C5: concurrent chat turns on one session lose no update. Whenever no
\* handler is on the event loop, the session's count is the number of turns
\* started, and its stage, count, name, preference, engagement level, stories
\* heard and compliments received are those the same turns leave when each
\* runs alone to its end in the order they were called, so that each turn's
\* stage comes from its own count of earlier turns.
C5_NoLostUpdate ==
    (running = 0 /\ InTable("s1")) =>
        /\ Session("s1").messages_count = ncalls
        /\ TurnState(Session("s1")) = TurnState(serial["s1"])
        /\ \A t \in Tasks : context[t] \in {0, active_sessions["s1"]}

\* Seven turns were started; two are in flight on the same context, which has
\* heard the story of the seventh.
C5_Witness ==
    /\ pc[1] = "model_call"
    /\ pc[2] = "model_call"
    /\ context[1] = context[2]
    /\ heap[context[1]].messages_count = 7
    /\ heap[context[1]].stage = STORY_MODE
    /\ Len(heap[context[1]].user_profile.stories_heard) = 1

\* C6: get_or_create_session on an id the table holds returns the stored
\* context and changes neither the table nor any context; on any other id it
\* stores and returns exactly one new context with that session_id, stage
\* GREETING, count 0, no name, preference unknown, engagement level 5 and no
\* stories or compliments, and leaves the other entries alone. Calls for one
\* new id from several handlers in flight create one context: the later call
\* finds the entry of the earlier.
C6_GetOrCreate ==
    [][\A t \in Tasks :
         (pc[t] \in SessionPoints /\ pc'[t] # pc[t]) =>
            LET sid == call[t].session_id
                ref == IF pc[t] = "update_session"
                       THEN profile_context'[t]
                       ELSE context'[t]
            IN  IF sid \in DOMAIN active_sessions
                THEN /\ active_sessions' = active_sessions
                     /\ ref = active_sessions[sid]
                     /\ \A r \in DOMAIN heap \cap DOMAIN heap' : heap'[r] = heap[r]
                     /\ DOMAIN heap' \subseteq DOMAIN heap
                ELSE /\ DOMAIN active_sessions' = DOMAIN active_sessions \cup {sid}
                     /\ \A other \in DOMAIN active_sessions :
                            active_sessions'[other] = active_sessions[other]
                     /\ ref = active_sessions'[sid]
                     /\ DOMAIN heap' \ DOMAIN heap = {ref}
                     /\ \A r \in DOMAIN heap \cap DOMAIN heap' : heap'[r] = heap[r]
                     /\ heap'[ref] =
                          [session_id |-> sid,
                           stage |-> "greeting",
                           user_profile |->
                              [name |-> <<>>,
                               pet_preference |-> "unknown",
                               compliments_received |-> <<>>,
                               stories_heard |-> <<>>,
                               engagement_level |-> 5],
                           current_mood |-> "neutral",
                           messages_count |-> 0]
      ]_vars

\* The first handler created the session "s1" and is at its model call; the
\* second, called for the same id, has just fetched that same context, which
\* holds the first turn's count.
C6_Witness ==
    /\ pc[1] = "model_call"
    /\ pc[2] = "update_lock"
    /\ call[2].session_id = "s1"
    /\ context[1] = context[2]
    /\ context[2] = active_sessions["s1"]
    /\ Cardinality(DOMAIN heap) = 1
    /\ heap[context[2]].messages_count = 1

\* C7: cleanup_session on an id the table does not hold returns false and
\* leaves the table as it was; on an id the table holds it returns true and
\* removes that entry and no other, and get_session_stats on the id then
\* returns None.
C7_Cleanup ==
    [][\A t \in Tasks :
         (pc[t] = "cleanup" /\ pc'[t] # "cleanup") =>
            LET sid == call[t].session_id
            IN  /\ result'[t].kind = "bool"
                /\ IF sid \in DOMAIN active_sessions
                   THEN /\ result'[t].value = TRUE
                        /\ DOMAIN active_sessions' = DOMAIN active_sessions \ {sid}
                        /\ \A other \in DOMAIN active_sessions' :
                              /\ active_sessions'[other] = active_sessions[other]
                              /\ heap'[active_sessions'[other]]
                                    = heap[active_sessions[other]]
                        /\ get_session_stats(active_sessions', heap', sid).kind = "none"
                   ELSE /\ result'[t].value = FALSE
                        /\ active_sessions' = active_sessions
                        /\ heap' = heap
      ]_vars

\* cleanup_session removed "s1" and returned true while the health session
\* stayed in the table.
C7_Witness ==
    \E t \in Tasks :
        /\ call[t].op = "cleanup_session"
        /\ call[t].session_id = "s1"
        /\ pc[t] = "done"
        /\ result[t].kind = "bool"
        /\ result[t].value = TRUE
        /\ DOMAIN active_sessions = {HealthSessionId}

\* C8: determine_conversation_stage depends on the count and on whether the
\* name is set only, by this priority: no name and count < 3 gives
\* GETTING_NAME; else count < 5 gives BUILDING_RAPPORT; else a multiple of 6
\* gives STORY_MODE; else a multiple of 4 gives COMPLIMENT_MODE; else
\* INTERACTIVE_MODE. It holds of the function on every context the
\* conversation reaches, and of the stage each turn has just set from the
\* count before it.
C8_StagePriority ==
    LET Claimed(count, named) ==
            CASE ~named /\ count < 3 -> "getting_name"
              [] (named \/ count >= 3) /\ count < 5 -> "building_rapport"
              [] count >= 5 /\ count % 6 = 0 -> "story_mode"
              [] count >= 5 /\ count % 6 # 0 /\ count % 4 = 0 -> "compliment_mode"
              [] count >= 5 /\ count % 6 # 0 /\ count % 4 # 0 -> "interactive_mode"
    IN  /\ \A r \in DOMAIN heap :
              determine_conversation_stage(heap[r])
                 = Claimed(heap[r].messages_count, heap[r].user_profile.name # <<>>)
        /\ pc[1] = "model_call" =>
              heap[context[1]].stage
                 = Claimed(heap[context[1]].messages_count - 1,
                           heap[context[1]].user_profile.name # <<>>)

\* The thirteenth turn, from the count 12, a multiple of 4 and of 6, has set
\* STORY_MODE.
C8_Witness ==
    /\ pc[1] = "model_call"
    /\ heap[context[1]].messages_count = 13
    /\ heap[context[1]].stage = STORY_MODE

\* C9: a turn sets the stage from the count before the turn and then
\* advances the count. In a session whose name was never set, the turn that
\* brings the count to k, for k from 1 to 8, leaves the k-th of the stages
\* GETTING_NAME, GETTING_NAME, GETTING_NAME, BUILDING_RAPPORT,
\* BUILDING_RAPPORT, INTERACTIVE_MODE, STORY_MODE, INTERACTIVE_MODE.
C9_StageFromCountBefore ==
    \A r \in DOMAIN heap :
        (heap[r].user_profile.name = <<>> /\ heap[r].messages_count \in 1..8) =>
            heap[r].stage =
                <<"getting_name", "getting_name", "getting_name",
                  "building_rapport", "building_rapport", "interactive_mode",
                  "story_mode", "interactive_mode">>[heap[r].messages_count]

\* Eight messages without a name were counted; the eighth turn left
\* INTERACTIVE_MODE and the session has heard the seventh turn's story.
C9_Witness ==
    /\ pc[1] = "model_call"
    /\ heap[context[1]].user_profile.name = None
    /\ heap[context[1]].messages_count = 8
    /\ heap[context[1]].stage = INTERACTIVE_MODE
    /\ Len(heap[context[1]].user_profile.stories_heard) = 1

\* C10: once the name of a context is set, no step changes it for as long as
\* the context exists, whatever name cues later messages carry.
C10_NameSetOnce ==
    [][\A r \in DOMAIN heap \cap DOMAIN heap' :
          heap[r].user_profile.name # None =>
              heap'[r].user_profile.name = heap[r].user_profile.name
      ]_vars

\* update_user_profile has just applied "I'm Bob! ..." to a session named
\* Sarah, and the name is still Sarah.
C10_Witness ==
    \E t \in Tasks :
        /\ pc[t] = "turn"
        /\ call[t].message = MsgLong
        /\ MessageEffect[MsgLong].name = <<"B", "o", "b">>
        /\ heap[context[t]].user_profile.name = <<"S", "a", "r", "a", "h">>
        /\ heap[context[t]].messages_count >= 1

\* C11: consecutive story selections on one session do not repeat an id
\* before every id of the library was told, whatever preference and
\* engagement level hold at each selection: the first seven selections are
\* pairwise distinct, each selection tells an id not told since the list was
\* last emptied, and the list is emptied only when it holds all seven ids.
C11_NoRepeatBeforeExhaustion ==
    /\ [](ncalls <= Len(pet_stories) =>
            LET heard == Session(SoloSession).user_profile.stories_heard
            IN  /\ Len(heard) = ncalls
                /\ \A i, j \in 1..Len(heard) : heard[i] = heard[j] => i = j)
    /\ [][ncalls' = ncalls + 1 =>
            LET old == heap[active_sessions[SoloSession]].user_profile.stories_heard
                new == heap'[active_sessions'[SoloSession]].user_profile.stories_heard
                id == new[Len(new)]
                library == {pet_stories[k].id : k \in 1..Len(pet_stories)}
            IN  /\ Len(new) >= 1
                /\ id \in library
                /\ IF {old[k] : k \in 1..Len(old)} = library
                   THEN new = <<id>>
                   ELSE new = Append(old, id) /\ ~InSeq(id, old)
       ]_vars

\* The eighth selection, on a session that by then prefers cats at an
\* engagement level above 7, starts the list again with one id.
C11_Witness ==
    /\ ncalls = 8
    /\ Len(Session(SoloSession).user_profile.stories_heard) = 1
    /\ Session(SoloSession).user_profile.pet_preference = CATS
    /\ Session(SoloSession).user_profile.engagement_level > 7

\* C12: a chat whose model call failed returns the fallback response at
\* index c mod 5, where c is the count of its session with this turn counted
\* (so c >= 1), after the name and ", " exactly when the name is set.
C12_FallbackByCount ==
    \A t \in Tasks :
        (/\ call[t].op \in ChatOps
         /\ pc[t] \in {"done", "health_cleanup"}
         /\ result[t].kind = "reply"
         /\ result[t].text \notin ModelTexts) =>
            LET c == heap[context[t]]
                name == c.user_profile.name
            IN  /\ c.messages_count >= 1
                /\ result[t].text =
                      (IF name # None THEN name \o <<",", " ">> ELSE <<>>)
                      \o <<fallback_responses[(c.messages_count % 5) + 1]>>

\* C13: what a turn does to its session it does before the model call, and a
\* failure takes nothing back. The step that ends a successful model call
\* changes the mood of the turn's context to ENGAGED and nothing else of any
\* session; the steps of the failure path change no entry of the table and
\* no field of any context, so that the session is after the failure what it
\* is after the success but for the mood.
C13_FailureKeepsTheTurn ==
    [][\A t \in Tasks :
         /\ (pc[t] = "model_call" /\ pc'[t] = Returned(call[t].op)) =>
               /\ active_sessions' = active_sessions
               /\ DOMAIN heap' = DOMAIN heap
               /\ heap'[context[t]] = [heap[context[t]] EXCEPT !.current_mood = "engaged"]
               /\ \A r \in DOMAIN heap \ {context[t]} : heap'[r] = heap[r]
         /\ (pc[t] \in {"model_call", "fallback_lock", "fallback_session", "fallback_reply"}
             /\ pc'[t] \in {"fallback_lock", "fallback_session", "fallback_reply",
                            Returned(call[t].op)}
             /\ ~(pc[t] = "model_call" /\ pc'[t] = Returned(call[t].op))) =>
               /\ active_sessions' = active_sessions
               /\ \A sid \in DOMAIN active_sessions :
                     heap'[active_sessions[sid]] = heap[active_sessions[sid]]
      ]_vars

\* C14: a chat call invokes the external model at most once. The model call
\* is submitted from the turn only; when it raises, the call goes to the
\* fallback reply and from there to its return without another invocation.
C14_OneModelCall ==
    /\ [](\A t \in Tasks : invoked[t] <= 1)
    /\ [][\A t \in Tasks :
            /\ invoked'[t] > invoked[t] => (pc[t] = "turn" /\ pc'[t] = "model_call")
            /\ (pc[t] = "model_call" /\ pc'[t] # "model_call") =>
                  pc'[t] \in {"fallback_lock", Returned(call[t].op)}
            /\ (pc[t] = "fallback_lock" /\ pc'[t] # pc[t]) => pc'[t] = "fallback_session"
            /\ (pc[t] = "fallback_session" /\ pc'[t] # pc[t]) => pc'[t] = "fallback_reply"
            /\ (pc[t] = "fallback_reply" /\ pc'[t] # pc[t]) => pc'[t] = Returned(call[t].op)
       ]_vars

\* A chat returned the fallback reply after one invocation of the model.
C14_Witness ==
    \E t \in Tasks :
        /\ call[t].op = "chat"
        /\ pc[t] = "done"
        /\ result[t].kind = "reply"
        /\ result[t].text \notin ModelTexts
        /\ invoked[t] = 1

\* C15: a message with a naming cue of the fixed set, multi-word cues among
\* them, followed at the cue's offset by a valid token sets an unset name to
\* that token in title case: update_user_profile applied to "My name is
\* Sarah" as the first message of a session leaves the name Sarah.
C15_NameIsSarah ==
    \A t \in Tasks :
        (/\ pc[t] = "turn"
         /\ call[t].message = MsgNameIs
         /\ heap[context[t]].messages_count = 0) =>
            heap[context[t]].user_profile.name = <<"S", "a", "r", "a", "h">>

\* C16: update_user_profile applied to "Hi, I'm Sarah and I love dogs!" sets
\* an unset name to Sarah, sets the preference to dogs and raises the
\* engagement level by at least 1 unless it is 10 already; applied once to a
\* fresh profile it leaves Sarah, dogs and a level of 6 or more.
C16_SarahLovesDogs ==
    /\ [](\A t \in Tasks :
            (/\ pc[t] = "turn"
             /\ call[t].message = MsgSarah
             /\ heap[context[t]].messages_count = 0) =>
                /\ heap[context[t]].user_profile.name = <<"S", "a", "r", "a", "h">>
                /\ heap[context[t]].user_profile.pet_preference = "dogs"
                /\ heap[context[t]].user_profile.engagement_level >= 6)
    /\ [][\A t \in Tasks :
            (pc[t] = "update_profile" /\ pc'[t] = "turn" /\ call[t].message = MsgSarah) =>
                LET old == heap[profile_context[t]].user_profile
                    new == heap'[profile_context[t]].user_profile
                IN  /\ old.name = <<>> => new.name = <<"S", "a", "r", "a", "h">>
                    /\ new.pet_preference = "dogs"
                    /\ IF old.engagement_level = 10
                       THEN new.engagement_level = 10
                       ELSE new.engagement_level >= old.engagement_level + 1
       ]_vars

\* The message was applied as the first of a session: Sarah, dogs, and the
\* level 6.
C16_Witness ==
    /\ pc[1] = "turn"
    /\ call[1].message = MsgSarah
    /\ heap[context[1]].messages_count = 0
    /\ heap[context[1]].user_profile.name = <<"S", "a", "r", "a", "h">>
    /\ heap[context[1]].user_profile.pet_preference = DOGS
    /\ heap[context[1]].user_profile.engagement_level = 6

\* C17: update_user_profile sets the preference to dogs when the message has
\* dog indicators only, to cats when it has cat indicators only, to both
\* when it has both, and leaves it when it has neither. A preference that is
\* not unknown never becomes unknown again, and no preference is ever
\* 'other'.
C17_PreferenceUpdate ==
    /\ [](\A r \in DOMAIN heap : heap[r].user_profile.pet_preference # "other")
    /\ [][/\ \A r \in DOMAIN heap \cap DOMAIN heap' :
                heap[r].user_profile.pet_preference # "unknown" =>
                    heap'[r].user_profile.pet_preference # "unknown"
          /\ \A t \in Tasks :
                (pc[t] = "update_profile" /\ pc'[t] = "turn") =>
                    LET lowered == lower(call[t].message)
                        dog == \E indicator \in dog_indicators :
                                  Contains(indicator, lowered)
                        cat == \E indicator \in cat_indicators :
                                  Contains(indicator, lowered)
                        old == heap[profile_context[t]].user_profile.pet_preference
                        new == heap'[profile_context[t]].user_profile.pet_preference
                    IN  new = CASE dog /\ ~cat -> "dogs"
                                [] cat /\ ~dog -> "cats"
                                [] dog /\ cat -> "both"
                                [] ~dog /\ ~cat -> old
       ]_vars

\* A message with no indicator was applied to a session that prefers both,
\* and the session still prefers both.
C17_Witness ==
    /\ pc[1] = "turn"
    /\ call[1].message = MsgTime
    /\ heap[context[1]].messages_count >= 1
    /\ heap[context[1]].user_profile.pet_preference = BOTH

\* C18: update_user_profile changes the engagement level to
\* clamp(old + delta, 1, 10), where delta is 1 for a message longer than 50
\* characters, plus 1 for an enthusiasm indicator, plus 1 for a question
\* indicator, minus 1 for a message shorter than 5 characters. delta is
\* between -1 and 3, and one turn raises the level by 3 at most and lowers
\* it by 1 at most.
C18_EngagementDelta ==
    [][\A t \in Tasks :
         (pc[t] = "update_profile" /\ pc'[t] = "turn") =>
            LET message == call[t].message
                lowered == lower(message)
                delta ==
                    (IF Len(message) > 50 THEN 1 ELSE 0)
                  + (IF \E indicator \in enthusiasm_indicators :
                          Contains(indicator, lowered) THEN 1 ELSE 0)
                  + (IF \E indicator \in question_indicators :
                          Contains(indicator, lowered) THEN 1 ELSE 0)
                  - (IF Len(message) < 5 THEN 1 ELSE 0)
                old == heap[profile_context[t]].user_profile.engagement_level
                new == heap'[profile_context[t]].user_profile.engagement_level
                sum == old + delta
            IN  /\ delta \in -1..3
                /\ new = IF sum < 1 THEN 1 ELSE IF sum > 10 THEN 10 ELSE sum
                /\ new - old <= 3
                /\ old - new <= 1
      ]_vars

\* A first message shorter than 5 characters lowered the level from 5 to 4,
\* and the long, enthusiastic question after it raised the level by 3 to 7.
C18_Witness ==
    /\ pc[1] = "turn"
    /\ call[1].message = MsgLong
    /\ heap[context[1]].messages_count = 1
    /\ heap[context[1]].user_profile.engagement_level = 7

\* C19: GREETING is the stage of a session only until its first chat turn,
\* and CLOSING is never its stage: once a chat call on a session id has
\* returned, the session stored under the id is in one of GETTING_NAME,
\* BUILDING_RAPPORT, STORY_MODE, COMPLIMENT_MODE and INTERACTIVE_MODE, and a
\* context with a count of 1 or more is in one of these five.
C19_StageAfterChatTurn ==
    /\ \A t \in Tasks :
          (call[t].op = "chat" /\ pc[t] = "done" /\ InTable(call[t].session_id)) =>
              Session(call[t].session_id).stage
                  \in {"getting_name", "building_rapport", "story_mode",
                       "compliment_mode", "interactive_mode"}
    /\ \A r \in DOMAIN heap :
          heap[r].messages_count >= 1 =>
              heap[r].stage \in {"getting_name", "building_rapport", "story_mode",
                                 "compliment_mode", "interactive_mode"}

\* C20: the stories_heard of every session holds no id twice and only ids of
\* the library, and so seven ids at most.
C20_StoriesHeardDistinct ==
    \A r \in DOMAIN heap :
        LET heard == heap[r].user_profile.stories_heard
        IN  /\ \A i, j \in 1..Len(heard) : heard[i] = heard[j] => i = j
            /\ \A i \in 1..Len(heard) :
                  heard[i] \in {"golden_coffee", "rescue_luna", "therapy_bella",
                                "artist_oliver", "painter_collie", "reading_cat",
                                "dancing_parrot"}
            /\ Len(heard) <= 7

\* Seven selections were made and the session has heard seven stories.
C20_Witness ==
    /\ ncalls = 7
    /\ Len(Session(SoloSession).user_profile.stories_heard) = 7


\* C21: a selection made when stories_heard holds every id of the library
\* leaves stories_heard holding exactly the id of the story it returns, and
\* that story is the one the full library yields for the preference and the
\* engagement level of the session; no selection returns None.
C21_ResetWhenAllHeard ==
    [][ncalls' = ncalls + 1 =>
          LET before == heap[active_sessions[SoloSession]].user_profile
              after == heap'[active_sessions'[SoloSession]].user_profile
              selected == result'[1].selected
              library == {pet_stories[k].id : k \in 1..Len(pet_stories)}
              from_library ==
                  IF before.pet_preference = DOGS THEN "therapy_bella"
                  ELSE IF before.pet_preference = CATS THEN "rescue_luna"
                  ELSE IF before.engagement_level > 7 THEN "painter_collie"
                  ELSE "golden_coffee"
          IN  /\ selected \in 1..Len(pet_stories)
              /\ {before.stories_heard[k] : k \in 1..Len(before.stories_heard)} = library =>
                    /\ pet_stories[selected].id = from_library
                    /\ after.stories_heard = <<from_library>>
    ]_vars

\* The eighth selection, made with all seven ids heard on a session of
\* engagement above 7 that prefers neither dogs nor cats alone, has emptied
\* the list and told the painting collie.
C21_Witness ==
    /\ ncalls = 8
    /\ result[1].selected = 5
    /\ Session(SoloSession).user_profile.stories_heard = <<"painter_collie">>

\* C22: the compliment a generate_personalized_compliment call returns is
\* none of the last three entries compliments_received had before the call,
\* and the call appends exactly that compliment; no step removes or reorders
\* an entry of compliments_received.
C22_ComplimentNotRecent ==
    [][LET before == heap[active_sessions[SoloSession]].user_profile.compliments_received
           after == heap'[active_sessions'[SoloSession]].user_profile.compliments_received
       IN  IF ncalls' = ncalls + 1
           THEN /\ after = Append(before, result'[1].selected)
                /\ \A k \in 1..Len(before) :
                      k > Len(before) - 3 => before[k] # result'[1].selected
           ELSE after = before
    ]_vars

\* Five compliments were given, the last to a session that prefers dogs: it
\* is the first of the pool again, three others having been given since.
C22_Witness ==
    LET received == Session(SoloSession).user_profile.compliments_received
    IN  /\ ncalls = 5
        /\ Len(received) = 5
        /\ received[5] = received[1]
        /\ Session(SoloSession).user_profile.pet_preference = DOGS

\* C29: the pool of every preference starts with the seven generic
\* compliments, the k-th compliment a session received is the generic
\* compliment at position ((k - 1) mod 4) + 1, so none is specific to dogs
\* or cats, and excluding the last three received never empties the pool.
C29_FirstFourGenericInTurn ==
    LET p == Session(SoloSession).user_profile
        received == p.compliments_received
        generic == base_compliments(UNKNOWN)
        pool == base_compliments(p.pet_preference)
    IN  /\ Len(generic) = 7
        /\ Len(pool) >= 7
        /\ SubSeq(pool, 1, 7) = generic
        /\ Len(received) = ncalls
        /\ \A k \in 1..Len(received) : received[k] = generic[((k - 1) % 4) + 1]
        /\ \E k \in 1..Len(pool) :
              \A i \in 1..Len(received) : i > Len(received) - 3 => received[i] # pool[k]

\* Nine compliments were given, the last to a session that prefers cats,
\* whose pool holds nine compliments.
C29_Witness ==
    /\ ncalls = 9
    /\ Len(Session(SoloSession).user_profile.compliments_received) = 9
    /\ Session(SoloSession).user_profile.pet_preference = CATS
    /\ Len(base_compliments(CATS)) = 9

\* C23: the step of a turn that counts the message records exactly one story
\* and no compliment when the stage it sets is STORY_MODE, appends exactly
\* one compliment and records no story when that stage is COMPLIMENT_MODE,
\* and leaves both sequences alone in every other stage; every other step,
\* the failure of the model call and the fallback reply included, leaves
\* both sequences of every context alone.
C23_ContentOnlyInItsStage ==
    [][\A r \in DOMAIN heap \cap DOMAIN heap' :
          LET before == heap[r].user_profile
              after == heap'[r].user_profile
              library == {pet_stories[k].id : k \in 1..Len(pet_stories)}
              one_story ==
                  \E id \in library :
                      \/ after.stories_heard = Append(before.stories_heard, id)
                      \/ /\ Len(before.stories_heard) = Len(pet_stories)
                         /\ after.stories_heard = <<id>>
              one_compliment ==
                  /\ Len(after.compliments_received) = Len(before.compliments_received) + 1
                  /\ SubSeq(after.compliments_received, 1, Len(before.compliments_received))
                        = before.compliments_received
              same_stories == after.stories_heard = before.stories_heard
              same_compliments == after.compliments_received = before.compliments_received
          IN  IF heap'[r].messages_count = heap[r].messages_count + 1
              THEN CASE heap'[r].stage = STORY_MODE -> one_story /\ same_compliments
                     [] heap'[r].stage = COMPLIMENT_MODE -> one_compliment /\ same_stories
                     [] OTHER -> same_stories /\ same_compliments
              ELSE same_stories /\ same_compliments
    ]_vars

\* The turn of the ninth message, in COMPLIMENT_MODE, ended with the
\* fallback reply after its model call failed: the session keeps the one
\* compliment of this turn and the one story of the STORY_MODE turn before.
C23_Witness ==
    /\ pc[1] = "done"
    /\ call[1].op = "chat"
    /\ result[1].kind = "reply"
    /\ result[1].text \notin ModelTexts
    /\ heap[context[1]].stage = COMPLIMENT_MODE
    /\ heap[context[1]].messages_count = 9
    /\ Len(heap[context[1]].user_profile.compliments_received) = 1
    /\ Len(heap[context[1]].user_profile.stories_heard) = 1

\* C24: a chat turn with the empty message leaves the name and the
\* preference as they were and lowers the engagement level by 1, or keeps it
\* at 1; it counts the message without touching the profile again, and the
\* chat call ends with a reply.
C24_EmptyMessage ==
    [][\A t \in Tasks :
          /\ (pc[t] = "update_profile" /\ pc'[t] = "turn" /\ call[t].message = MsgEmpty) =>
                LET before == heap[profile_context[t]].user_profile
                    after == heap'[profile_context[t]].user_profile
                IN  /\ after.name = before.name
                    /\ after.pet_preference = before.pet_preference
                    /\ after.engagement_level =
                          IF before.engagement_level = 1 THEN 1
                          ELSE before.engagement_level - 1
          /\ (pc[t] = "turn" /\ pc'[t] = "model_call" /\ call[t].message = MsgEmpty) =>
                /\ heap'[context[t]].messages_count = heap[context[t]].messages_count + 1
                /\ heap'[context[t]].user_profile.name = heap[context[t]].user_profile.name
                /\ heap'[context[t]].user_profile.pet_preference
                      = heap[context[t]].user_profile.pet_preference
                /\ heap'[context[t]].user_profile.engagement_level
                      = heap[context[t]].user_profile.engagement_level
          /\ (call[t].op = "chat" /\ pc[t] # "done" /\ pc'[t] = "done") =>
                /\ result'[t].kind = "reply"
                /\ Len(result'[t].text) >= 0
    ]_vars

\* The sixth turn of a conversation carries the empty message; the five
\* turns before it were counted and have returned, the level is at its floor
\* of 1 and stays there, and no name or preference is known.
C24_Witness ==
    /\ pc[1] = "turn"
    /\ call[1].message = MsgEmpty
    /\ heap[context[1]].messages_count = 5
    /\ heap[context[1]].user_profile.engagement_level = 1
    /\ heap[context[1]].user_profile.name = None
    /\ heap[context[1]].user_profile.pet_preference = UNKNOWN

\* C25: once the reset handler has run for an id, the table holds a fresh
\* context for the id (GREETING, count 0, a fresh profile) and the handler
\* answers 200.
C25_ResetLeavesFreshSession ==
    \A t \in Tasks :
        (call[t].op = "reset_session" /\ pc[t] = "done") =>
            /\ result[t].kind = "http"
            /\ result[t].status = 200
            /\ InTable(call[t].session_id)
            /\ Session(call[t].session_id) = ConversationContext(call[t].session_id)

\* C26: no step that a chat call takes from its model call to its return,
\* on the success path or on the fallback path, puts the id of a removed
\* session back into the table, and the context the call replies from is the
\* one its turn worked on.
C26_NoResurrection ==
    [][\A t \in Tasks :
          (/\ call[t].op = "chat"
           /\ pc[t] \in {"model_call", "fallback_lock", "fallback_session", "fallback_reply"}
           /\ pc'[t] # pc[t]) =>
              /\ ~InTable(call[t].session_id) =>
                    call[t].session_id \notin DOMAIN active_sessions'
              /\ context'[t] = context[t]
    ]_vars

\* C27: a step of a chat, cleanup_session or get_session_stats call for one
\* session id leaves every other id as it is: in the table or not, bound to
\* the same context object, and that object equal in every field.
C27_SessionsIsolated ==
    [][\A t \in Tasks :
          LET c == IF pc[t] = "idle" THEN call'[t] ELSE call[t]
          IN  (pc'[t] # pc[t] /\ c.op \in {"chat", "cleanup_session", "get_session_stats"}) =>
                \A other \in SessionIds \ {c.session_id} :
                    /\ other \in DOMAIN active_sessions' <=> other \in DOMAIN active_sessions
                    /\ other \in DOMAIN active_sessions =>
                          /\ active_sessions'[other] = active_sessions[other]
                          /\ heap'[active_sessions'[other]] = heap[active_sessions[other]]
    ]_vars

\* Two chat calls for two ids overlap: one has returned its reply while the
\* other is in its model call, and each id has its own context with one
\* message counted.
C27_Witness ==
    /\ call[1].op = "chat" /\ call[1].session_id = "s1" /\ pc[1] = "model_call"
    /\ call[2].op = "chat" /\ call[2].session_id = HealthSessionId /\ pc[2] = "done"
    /\ InTable("s1") /\ InTable(HealthSessionId)
    /\ active_sessions["s1"] # active_sessions[HealthSessionId]
    /\ Session("s1").messages_count = 1
    /\ Session(HealthSessionId).messages_count = 1

\* C28: the lock is free whenever no handler is on the event loop, and so
\* during every model call; a task that waits for the lock does not hold it;
\* the step a task takes while it holds the lock releases it; a held lock is
\* eventually free; and every chat call eventually has its reply, the model
\* call ending with a result or an exception.
C28_LockReleasedAndChatReturns ==
    /\ [](running = 0 => session_lock = 0)
    /\ [](\A t \in Tasks :
            /\ pc[t] = "model_call" => session_lock # t
            /\ pc[t] \in LockPoints => session_lock # t)
    /\ [][\A t \in Tasks :
            (session_lock = t /\ pc'[t] # pc[t]) => session_lock' = 0]_vars
    /\ (session_lock # 0) ~> (session_lock = 0)
    /\ \A t \in Tasks :
          (call[t].op = "chat" /\ pc[t] = "chat_lock")
              ~> (call[t].op = "chat" /\ pc[t] = "done" /\ result[t].kind = "reply")

\* A cleanup_session call holds the lock while a chat call for the same id
\* is suspended in its model call.
C28_Witness ==
    \E t, u \in Tasks :
        /\ call[t].op = "chat" /\ pc[t] = "model_call"
        /\ call[u].op = "cleanup_session" /\ pc[u] = "cleanup"
        /\ call[u].session_id = call[t].session_id
        /\ session_lock = u
====
